---- MODULE Spec2Model ----
(***************************************************************************)
(* Flowing-text renderer (pdfRender), card renderer (cardSchema.pdf) and   *)
(* QR-code renderer of the schemas package, as a state machine.            *)
(*                                                                         *)
(* Units.  Lengths in points are integers counting 1/10000 pt, so that     *)
(* mm2pt (factor 2.8346) is exact.  lineHeight is counted in halves        *)
(* (0, 1, 2 stand for 0, 0.5, 1.0).  A character spacing is the exact      *)
(* fraction <<num, den>>; den = 0 stands for a non-finite value.           *)
(*                                                                         *)
(* A render call runs synchronously between two awaits, so one action is   *)
(* the code between two suspension points of one call.                     *)
(***************************************************************************)
EXTENDS Integers, Sequences, FiniteSets, TLC

\* ------------------------------------------------------------------ bounds
MaxLines == 3
NumCalls == 2
MaxFields == 4

\* ------------------------------------------------- constants of pdfRender
topMarginMm == 20
bottomMarginMm == 20
pageHeightMm == 297

VERTICAL_ALIGN_TOP == "top"
VERTICAL_ALIGN_MIDDLE == "middle"
VERTICAL_ALIGN_BOTTOM == "bottom"

\* ----------------------------------------------------------------- helpers
NL == "\n"

RECURSIVE SortedSeq(_)
\* the elements of a finite set of integers in ascending order
SortedSeq(S) ==
  IF S = {} THEN <<>>
  ELSE LET m == CHOOSE x \in S : \A y \in S : x <= y
       IN <<m>> \o SortedSeq(S \ {m})

RECURSIVE Flatten(_)
Flatten(ss) == IF ss = <<>> THEN <<>> ELSE Head(ss) \o Flatten(Tail(ss))

\* mm2pt of @pdfme/common: millimetres to points, factor 2.8346
mm2pt(mm) == mm * 28346

\* the active font set (options.font): name -> is it the designated fallback
Font == [fontA |-> [fallback |-> TRUE], fontB |-> [fallback |-> FALSE]]

\* getFallbackFontName of @pdfme/common: the name flagged as fallback
getFallbackFontName(font) == CHOOSE n \in DOMAIN font : font[n].fallback

\* heightOfFontAtSize of helper.js: the ascent height scales with the size
heightOfFontAtSize(fontSize) == fontSize * 8000

\* getFontDescentInPt of helper.js: the descent (negative) scales with the size
getFontDescentInPt(fontSize) == 0 - fontSize * 2000

\* widthOfTextAtSize of helper.js: the advances plus the spacing between graphemes
widthOfTextAtSize(text, fontSize, characterSpacing) ==
  IF Len(text) = 0 THEN 0
  ELSE Len(text) * fontSize * 5000 + characterSpacing * (Len(text) - 1)

\* convertForPdfLayoutProps of utils.js (applyRotateTranslate: false)
convertForPdfLayoutProps(schema, pageHeight) ==
  [ width  |-> mm2pt(schema.width),
    height |-> mm2pt(schema.height),
    x      |-> mm2pt(schema.position.x),
    y      |-> pageHeight - mm2pt(schema.position.y) - mm2pt(schema.height) ]

\* ------------------------------------------------------- string operations
RECURSIVE ReplaceFirstNL(_)
\* line.replace('\n', ''): removes the first '\n' only
ReplaceFirstNL(line) ==
  IF line = <<>> THEN <<>>
  ELSE IF Head(line) = NL THEN Tail(line)
  ELSE <<Head(line)>> \o ReplaceFirstNL(Tail(line))

\* line.slice(-1): the last character, '' for the empty string
LastChar(line) == IF line = <<>> THEN "" ELSE line[Len(line)]

\* if (line === '') line = '\r\n'
EmptyLineFix(line) == IF line = <<>> THEN <<"\r", NL>> ELSE line

\* ----------------------------------------------------------- getFontProp
\* The schemas of this model set every style property and leave dynamicFontSize
\* off, so the ?? defaults and calculateDynamicFontSize are not taken.
getFontProp(schema) ==
  [ alignment         |-> schema.alignment,
    verticalAlignment |-> schema.verticalAlignment,
    lineHeight        |-> schema.lineHeight,
    characterSpacing  |-> schema.characterSpacing,
    fontSize          |-> schema.fontSize ]

\* lineHeight === 0 ? 0 : ((lineHeight - 1) * fontSize) / 2
halfLineHeightAdjustment(lineHeight, fontSize) ==
  IF lineHeight = 0 THEN 0 ELSE (lineHeight - 2) * fontSize * 2500

\* lineHeight * fontSize * rows
rowYOffsetOf(lineHeight, fontSize, rows) == lineHeight * fontSize * 5000 * rows

\* the vertical offset of the first baseline (yOffset)
yOffsetOf(verticalAlignment, lineHeight, fontSize, height, nLines) ==
  LET firstLineTextHeight == heightOfFontAtSize(fontSize)
      descent == getFontDescentInPt(fontSize)
      half == halfLineHeightAdjustment(lineHeight, fontSize)
      otherLinesHeight == rowYOffsetOf(lineHeight, fontSize, nLines - 1)
  IN IF verticalAlignment = VERTICAL_ALIGN_TOP
       THEN firstLineTextHeight + half
     ELSE IF verticalAlignment = VERTICAL_ALIGN_BOTTOM
       THEN height - otherLinesHeight + descent - half
     ELSE IF verticalAlignment = VERTICAL_ALIGN_MIDDLE
       THEN (height - otherLinesHeight - firstLineTextHeight + descent) \div 2
            + firstLineTextHeight
     ELSE 0

\* ------------------------------------------------- the Paginator (reduce)
\* the accumulator and the closure variables before the first line
PaginatorInit(schema) ==
  [ acc         |-> << >>,
    pageCounter |-> 0,
    indexOffset |-> 0,
    yTopMm      |-> schema.position.y,
    yBottomMm   |-> schema.position.y + schema.height ]

\* the candidate baseline the reducer computes for the line at `index`
PaginatorYLine(st, index, L) ==
  L.pageHeight - mm2pt(st.yTopMm) - L.yOffset
    - rowYOffsetOf(L.lineHeight, L.fontSize, index - st.indexOffset)

\* acc[k] = [entry]
SetPage(acc, k, entries) ==
  [i \in (DOMAIN acc) \cup {k} |-> IF i = k THEN entries ELSE acc[i]]

\* a variant of PaginatorPush that always starts the page anew
PaginatorPush_Overwrite(st, entry) ==
  [st EXCEPT !.acc = SetPage(st.acc, st.pageCounter, <<entry>>)]

\* else branch of the reducer: push onto the current page, creating it if absent
PaginatorPush(st, entry) ==
  IF st.pageCounter \in DOMAIN st.acc
    THEN [st EXCEPT !.acc = SetPage(st.acc, st.pageCounter,
                                    Append(st.acc[st.pageCounter], entry))]
    ELSE [st EXCEPT !.acc = SetPage(st.acc, st.pageCounter, <<entry>>)]

\* then branch of the reducer: open page ++pageCounter with the line on it
PaginatorOpen(st, entry, index) ==
  [ acc         |-> SetPage(st.acc, st.pageCounter + 1, <<entry>>),
    pageCounter |-> st.pageCounter + 1,
    indexOffset |-> index,
    yTopMm      |-> topMarginMm,
    yBottomMm   |-> pageHeightMm - bottomMarginMm ]

\* one call of the reducer.  An entry is the line (current), with its index
\* and the baseline and bound the reducer tested it at.
PaginatorStep(st, current, index, L) ==
  LET yLine == PaginatorYLine(st, index, L)
      bound == L.pageHeight - mm2pt(st.yBottomMm)
      entry == [index |-> index, line |-> current, yTest |-> yLine,
                opened |-> (yLine <= bound)]
  IN IF yLine <= bound
       THEN PaginatorOpen(st, entry, index)
       ELSE PaginatorPush(st, entry)

RECURSIVE PaginatorFold(_, _, _, _)
PaginatorFold(st, lines, index, L) ==
  IF index >= Len(lines) THEN st
  ELSE PaginatorFold(PaginatorStep(st, lines[index + 1], index, L),
                     lines, index + 1, L)

\* linesSplittedPages: page index -> entries; an index never assigned is a hole
linesSplittedPagesOf(lines, schema, L) ==
  PaginatorFold(PaginatorInit(schema), lines, 0, L).acc

\* ------------------------------------------- the emitter (forEach, drawText)
\* a variant of EmitYTopMm that keeps the box's top on every page
EmitYTopMm_BoxTop(pageCount, schema) == schema.position.y

\* const yTopMm = pageCount === 0 ? schema.position.y : topMarginMm
EmitYTopMm(pageCount, schema) ==
  IF pageCount = 0 THEN schema.position.y ELSE topMarginMm

\* alignment === 'justify' && line.slice(-1) !== '\n'
JustifyApplies(alignment, line) ==
  alignment = "justify" /\ LastChar(line) # NL

\* spacing = characterSpacing, += (width - textWidth) / len when justified
SpacingOf(alignment, line, trimmed, width, textWidth, characterSpacing) ==
  IF JustifyApplies(alignment, line)
    THEN <<characterSpacing * Len(trimmed) + (width - textWidth), Len(trimmed)>>
    ELSE <<characterSpacing, 1>>

\* xLine by alignment
XLineOf(alignment, x, width, textWidth) ==
  IF alignment = "center" THEN x + (width - textWidth) \div 2
  ELSE IF alignment = "right" THEN x + width - textWidth
  ELSE x

\* the value of a missing property; drawText then keeps the page's own font
undefined == [name |-> "undefined", gen |-> 0]

\* fontName and pdfFontValue: pdfFontObj && pdfFontObj[fontName]
pdfFontValueOf(schema, font, pdfFontObj) ==
  LET fontName == IF schema.fontName # "" THEN schema.fontName
                  ELSE getFallbackFontName(font)
  IN IF fontName \in DOMAIN pdfFontObj THEN pdfFontObj[fontName] ELSE undefined

\* the body of linesInPage.forEach for one line: the drawText call it makes
EmitLine(entry, rowIndex, pageCount, schema, L, pdfFontValue) ==
  LET trimmed == ReplaceFirstNL(entry.line)
      textWidth == widthOfTextAtSize(trimmed, L.fontSize, L.characterSpacing)
      line == EmptyLineFix(entry.line)
  IN [ page    |-> pageCount,
       row     |-> rowIndex,
       index   |-> entry.index,
       text    |-> trimmed,
       x       |-> XLineOf(L.alignment, L.x, L.width, textWidth),
       y       |-> L.pageHeight - mm2pt(EmitYTopMm(pageCount, schema)) - L.yOffset
                     - rowYOffsetOf(L.lineHeight, L.fontSize, rowIndex),
       spacing |-> SpacingOf(L.alignment, line, trimmed, L.width, textWidth,
                             L.characterSpacing),
       font    |-> pdfFontValue ]

\* the draws of one page of linesSplittedPages, in row order
EmitPage(entries, pageCount, schema, L, pdfFontValue) ==
  [r \in 1..Len(entries) |->
     EmitLine(entries[r], r - 1, pageCount, schema, L, pdfFontValue)]

\* the drawing operations one page receives: the marker rectangles (header and
\* footer on a continuation page, footer on page 0), then one text run a line
PageOps(c, pageCount, nLines) ==
  (IF pageCount # 0
     THEN <<[op |-> "drawRectangle", by |-> c], [op |-> "drawRectangle", by |-> c]>>
     ELSE <<[op |-> "drawRectangle", by |-> c]>>)
  \o [r \in 1..nLines |-> [op |-> "drawText", by |-> c]]

RECURSIVE EmitPages(_, _, _, _, _, _, _)
\* linesSplittedPages.forEach over the assigned indices (holes are skipped).
\* st = [pages, draws, added, crashed]; pages is the page list of the document,
\* each page the sequence of operations drawn on it.
EmitPages(st, order, acc, c, schema, L, pdfFontValue) ==
  IF order = <<>> \/ st.crashed THEN st
  ELSE
    LET pageCount == Head(order)
        missing == pageCount # 0 /\ pageCount + 1 > Len(st.pages)
        pages1 == IF missing THEN Append(st.pages, <<>>) ELSE st.pages
        present == pageCount + 1 <= Len(pages1)
        ops == PageOps(c, pageCount, Len(acc[pageCount]))
        st1 == IF present
                 THEN [ pages   |-> [pages1 EXCEPT ![pageCount + 1] = @ \o ops],
                        draws   |-> st.draws \o EmitPage(acc[pageCount], pageCount,
                                                         schema, L, pdfFontValue),
                        added   |-> st.added + (IF missing THEN 1 ELSE 0),
                        crashed |-> FALSE ]
                 ELSE [ pages   |-> pages1,
                        draws   |-> st.draws,
                        added   |-> st.added + (IF missing THEN 1 ELSE 0),
                        crashed |-> TRUE ]
    IN EmitPages(st1, Tail(order), acc, c, schema, L, pdfFontValue)

\* the layout values pdfRender derives from the schema and the wrapped lines
LayoutOf(schema, lines, pageHeight) ==
  LET fontProp == getFontProp(schema)
      box == convertForPdfLayoutProps(schema, pageHeight)
  IN [ pageHeight       |-> pageHeight,
       width            |-> box.width,
       height           |-> box.height,
       x                |-> box.x,
       y                |-> box.y,
       alignment        |-> fontProp.alignment,
       lineHeight       |-> fontProp.lineHeight,
       fontSize         |-> fontProp.fontSize,
       characterSpacing |-> fontProp.characterSpacing,
       yOffset          |-> yOffsetOf(fontProp.verticalAlignment, fontProp.lineHeight,
                                      fontProp.fontSize, box.height, Len(lines)) ]

\* ------------------------------------------------------------------- state
VARIABLES
  arg,       \* call -> the PDFRenderProps it was invoked with (kind, value, schema)
  pc,        \* call -> the suspension point the call is at
  cache,     \* _cache: key -> value (the pdfDoc key holds the embedded fonts)
  docPages,  \* pdfDoc's pages in order, each the operations drawn on it
  local,     \* call -> the local variables that live across an await
  out,       \* call -> what the call computed (linesSplittedPages, its drawText calls)
  stats,     \* call -> counts of its cache reads/writes, pages added, operations drawn
  embedded   \* how many times the font set was embedded into pdfDoc

vars == <<arg, pc, cache, docPages, local, out, stats, embedded>>

Calls == DOMAIN pc

\* the document every call renders into; as a cache key, the object itself
pdfDoc == <<"pdfDoc">>

\* a variant of Falsy that lets every value through
Falsy_Never(value) == FALSE

\* if (!value) return
Falsy(value) == value = <<>>

NoStats == [reads |-> 0, writes |-> 0, added |-> 0, ops |-> 0]

Bump(st, reads, writes, added, ops) ==
  [ reads  |-> st.reads + reads,   writes |-> st.writes + writes,
    added  |-> st.added + added,   ops    |-> st.ops + ops ]

\* ------------------------------------------------ pdfRender (flowing text)
\* Entry of pdfRender up to the first await: the value guard, then the
\* synchronous head of embedAndGetFontObj (the _cache.has / _cache.get).
pdfRender(c) ==
  /\ pc[c] = "start"
  /\ arg[c].kind = "flowingText"
  /\ IF Falsy(arg[c].value)
       THEN /\ pc' = [pc EXCEPT ![c] = "done"]
            /\ UNCHANGED <<local, stats>>
       ELSE IF pdfDoc \in DOMAIN cache
         THEN /\ pc' = [pc EXCEPT ![c] = "awaitAll"]
              /\ local' = [local EXCEPT ![c] = [pdfFontObj |-> cache[pdfDoc]]]
              /\ stats' = [stats EXCEPT ![c] = Bump(@, 2, 0, 0, 0)]
         ELSE /\ pc' = [pc EXCEPT ![c] = "embedding"]
              /\ stats' = [stats EXCEPT ![c] = Bump(@, 1, 0, 0, 0)]
              /\ UNCHANGED local
  /\ UNCHANGED <<arg, cache, docPages, out, embedded>>

\* embedAndGetFontObj after its await: every font was embedded into pdfDoc,
\* fontObj is built and written to the cache under pdfDoc.
embedAndGetFontObj(c) ==
  /\ pc[c] = "embedding"
  /\ LET fontObj == [n \in DOMAIN Font |-> [name |-> n, gen |-> embedded + 1]]
     IN /\ cache' = [k \in (DOMAIN cache) \cup {pdfDoc} |->
                       IF k = pdfDoc THEN fontObj ELSE cache[k]]
        /\ local' = [local EXCEPT ![c] = [pdfFontObj |-> fontObj]]
  /\ embedded' = embedded + 1
  /\ stats' = [stats EXCEPT ![c] = Bump(@, 0, 1, 0, 0)]
  /\ pc' = [pc EXCEPT ![c] = "awaitAll"]
  /\ UNCHANGED <<arg, docPages, out>>

\* pdfRender after await Promise.all: the synchronous rest (background, yOffset,
\* the Paginator reduce, the forEach that adds pages and draws the lines).
layout(c) ==
  /\ pc[c] = "awaitAll"
  /\ LET schema == arg[c].schema
         lines == arg[c].value
         pageHeight == arg[c].pageHeight
         L == LayoutOf(schema, lines, pageHeight)
         pdfFontValue == pdfFontValueOf(schema, Font, local[c].pdfFontObj)
         bg == IF schema.backgroundColor # ""
                 THEN <<[op |-> "drawRectangle", by |-> c]>> ELSE <<>>
         pages0 == [docPages EXCEPT ![1] = @ \o bg]
         acc == linesSplittedPagesOf(lines, schema, L)
         r == EmitPages([pages |-> pages0, draws |-> <<>>, added |-> 0,
                         crashed |-> FALSE],
                        SortedSeq(DOMAIN acc), acc, c, schema, L, pdfFontValue)
         nOps == Len(Flatten(r.pages)) - Len(Flatten(docPages))
     IN /\ docPages' = r.pages
        /\ out' = [out EXCEPT ![c] =
                     [linesSplittedPages |-> acc, draws |-> r.draws, yOffset |-> L.yOffset]]
        /\ stats' = [stats EXCEPT ![c] = Bump(@, 0, 0, r.added, nOps)]
        /\ pc' = [pc EXCEPT ![c] = IF r.crashed THEN "threw" ELSE "done"]
  /\ UNCHANGED <<arg, cache, local, embedded>>

\* ------------------------------------------------------ QR-code pdfRender
\* getBarcodeCacheKey: type + backgroundColor + barColor + value
getBarcodeCacheKey(schema, value) ==
  <<schema.type, schema.backgroundColor, schema.barColor>> \o value

\* Entry of the QR-code pdfRender up to its first await: the value guard, the
\* cache lookup, and on a hit the drawImage.
qrPdfRender(c) ==
  /\ pc[c] = "start"
  /\ arg[c].kind = "qrCode"
  /\ IF Falsy(arg[c].value)
       THEN /\ pc' = [pc EXCEPT ![c] = "done"]
            /\ UNCHANGED <<docPages, stats>>
       ELSE IF getBarcodeCacheKey(arg[c].schema, arg[c].value) \in DOMAIN cache
         THEN /\ pc' = [pc EXCEPT ![c] = "done"]
              /\ docPages' = [docPages EXCEPT ![1] =
                                Append(@, [op |-> "drawImage", by |-> c])]
              /\ stats' = [stats EXCEPT ![c] = Bump(@, 1, 0, 0, 1)]
         ELSE /\ pc' = [pc EXCEPT ![c] = "encoding"]
              /\ stats' = [stats EXCEPT ![c] = Bump(@, 1, 0, 0, 0)]
              /\ UNCHANGED docPages
  /\ UNCHANGED <<arg, cache, local, out, embedded>>

\* After QRCode.toDataURL and pdfDoc.embedPng: cache the image and draw it.
qrEmbedPng(c) ==
  /\ pc[c] = "encoding"
  /\ LET key == getBarcodeCacheKey(arg[c].schema, arg[c].value)
     IN cache' = [k \in (DOMAIN cache) \cup {key} |->
                    IF k = key THEN [image |-> c] ELSE cache[k]]
  /\ docPages' = [docPages EXCEPT ![1] = Append(@, [op |-> "drawImage", by |-> c])]
  /\ stats' = [stats EXCEPT ![c] = Bump(@, 0, 1, 0, 1)]
  /\ pc' = [pc EXCEPT ![c] = "done"]
  /\ UNCHANGED <<arg, local, out, embedded>>

\* ---------------------------------------------------------- cardSchema.pdf
BarcodeTypes == {"qrcode", "ean13", "code128"}

\* the renderers the switch on fieldSchema.type runs, in order (case 'svg' has
\* no break and runs into case 'line')
RenderersOf(type) ==
  IF type = "text" THEN <<"text">>
  ELSE IF type = "image" THEN <<"image">>
  ELSE IF type = "svg" THEN <<"svg", "line">>
  ELSE IF type = "line" THEN <<"line">>
  ELSE IF type = "rect" THEN <<"rect">>
  ELSE IF type = "ellipse" THEN <<"ellipse">>
  ELSE IF type \in BarcodeTypes THEN <<type>>
  ELSE <<>>

\* schema.schemas.find((element) => element.name === key): 0 when undefined
FindSchema(schemas, key) ==
  IF \E i \in 1..Len(schemas) : schemas[i].name = key
    THEN CHOOSE i \in 1..Len(schemas) :
           schemas[i].name = key /\ \A j \in 1..(i - 1) : schemas[j].name # key
    ELSE 0

\* the renderer calls of one [key, value] entry of a field group
DispatchEntry(schemas, entry) ==
  LET i == FindSchema(schemas, entry[1])
  IN IF i = 0 THEN <<>>
     ELSE [k \in 1..Len(RenderersOf(schemas[i].type)) |->
             [key |-> entry[1], type |-> schemas[i].type,
              renderer |-> RenderersOf(schemas[i].type)[k]]]

RECURSIVE DispatchGroup(_, _)
\* for (const [key, value] of Object.entries(fieldGroup))
DispatchGroup(schemas, entries) ==
  IF entries = <<>> THEN <<>>
  ELSE DispatchEntry(schemas, Head(entries)) \o DispatchGroup(schemas, Tail(entries))

\* a variant of CardWrap whose page wrap does not return to the top of the page
CardWrap_KeepY(l, schema) ==
  LET rowWrap == l.currentX + schema.width > schema.effectiveWidth
      x1 == IF rowWrap THEN 0 ELSE l.currentX
      y1 == IF rowWrap THEN l.currentY + l.rowHeight + schema.yGutter ELSE l.currentY
      r1 == IF rowWrap THEN 0 ELSE l.rowHeight
      pageWrap == y1 + schema.height > schema.effectiveHeight
  IN [ currentX  |-> IF pageWrap THEN 0 ELSE x1,
       currentY  |-> y1,
       rowHeight |-> IF pageWrap THEN 0 ELSE r1,
       pageIndex |-> IF pageWrap THEN l.pageIndex + 1 ELSE l.pageIndex ]

\* the row wrap and the page wrap at the head of the loop body
CardWrap(l, schema) ==
  LET yGutter == schema.yGutter
      rowWrap == l.currentX + schema.width > schema.effectiveWidth
      x1 == IF rowWrap THEN 0 ELSE l.currentX
      y1 == IF rowWrap THEN l.currentY + l.rowHeight + yGutter ELSE l.currentY
      r1 == IF rowWrap THEN 0 ELSE l.rowHeight
      pageWrap == y1 + schema.height > schema.effectiveHeight
  IN [ currentX  |-> IF pageWrap THEN 0 ELSE x1,
       currentY  |-> IF pageWrap THEN 0 ELSE y1,
       rowHeight |-> IF pageWrap THEN 0 ELSE r1,
       pageIndex |-> IF pageWrap THEN l.pageIndex + 1 ELSE l.pageIndex ]

Max(a, b) == IF a >= b THEN a ELSE b

\* Entry of cardSchema.pdf: the value guard and the locals before the loop.
cardPdf(c) ==
  /\ pc[c] = "start"
  /\ arg[c].kind = "card"
  /\ IF Falsy(arg[c].value) \/ arg[c].schema.fields = <<>>
       THEN /\ pc' = [pc EXCEPT ![c] = "done"]
            /\ UNCHANGED local
       ELSE /\ pc' = [pc EXCEPT ![c] = "cardLoop"]
            /\ local' = [local EXCEPT ![c] =
                 [ currentX |-> 0, currentY |-> 0, rowHeight |-> 0, pageIndex |-> 0,
                   pages |-> [i \in 1..Len(docPages) |-> i],
                   next |-> 1, placed |-> <<>>, calls |-> <<>> ]]
  /\ UNCHANGED <<arg, cache, docPages, out, stats, embedded>>

\* One iteration of the loop over fields: wrap, add the page if it is missing,
\* render the entries of the field group, draw the border, advance.
cardField(c) ==
  /\ pc[c] = "cardLoop"
  /\ LET schema == arg[c].schema
         l == local[c]
         w == CardWrap(l, schema)
         missing == w.pageIndex + 1 > Len(l.pages)
         doc1 == IF missing THEN Append(docPages, <<>>) ELSE docPages
         pages1 == IF missing THEN Append(l.pages, Len(doc1)) ELSE l.pages
         page == pages1[w.pageIndex + 1]
         calls == DispatchGroup(schema.schemas, schema.fields[l.next])
         ops == [k \in 1..Len(calls) |-> [op |-> calls[k].renderer, by |-> c]]
                  \o <<[op |-> "drawRectangle", by |-> c]>>
         last == l.next = Len(schema.fields)
     IN /\ docPages' = [doc1 EXCEPT ![page] = @ \o ops]
        /\ local' = [local EXCEPT ![c] =
             [ currentX  |-> w.currentX + schema.width + schema.xGutter,
               currentY  |-> w.currentY,
               rowHeight |-> Max(w.rowHeight, schema.height),
               pageIndex |-> w.pageIndex,
               pages     |-> pages1,
               next      |-> l.next + 1,
               placed    |-> Append(l.placed,
                              [field |-> l.next, x |-> w.currentX, y |-> w.currentY,
                               pageIndex |-> w.pageIndex, page |-> page]),
               calls     |-> Append(l.calls, calls) ]]
        /\ stats' = [stats EXCEPT ![c] =
                       Bump(@, 0, 0, IF missing THEN 1 ELSE 0, Len(ops))]
        /\ pc' = [pc EXCEPT ![c] = IF last THEN "done" ELSE "cardLoop"]
  /\ UNCHANGED <<arg, cache, out, embedded>>

\* ------------------------------------------------------------ the inputs
\* the lines splitTextToSize can return: empty, one grapheme, two graphemes,
\* and a line carrying the '\n' of an explicit break
LineTexts == { <<>>, <<"a">>, <<"a", "b">>, <<"a", "b", NL>> }

LineLists == UNION { [1..n -> LineTexts] : n \in 1..MaxLines }

\* A4 in points (page.getHeight())
PageHeights == { 8418900 }

FlowingTextSchema(height, verticalAlignment, lineHeight, alignment, width, fontName, bg) ==
  [ position          |-> [x |-> 10, y |-> 10],
    width             |-> width,
    height            |-> height,
    alignment         |-> alignment,
    verticalAlignment |-> verticalAlignment,
    lineHeight        |-> lineHeight,
    characterSpacing  |-> 10000,
    fontSize          |-> 10,
    fontName          |-> fontName,
    backgroundColor   |-> bg ]

\* box heights in mm: degenerate, shorter than the font, shorter than two lines,
\* nearly the page; line heights in halves: 0, 0.5, 1.0
LayoutSchemas ==
  { FlowingTextSchema(h, va, lh, al, w, "", "") :
      h \in {0, 2, 5, 260},
      va \in {VERTICAL_ALIGN_TOP, VERTICAL_ALIGN_MIDDLE, VERTICAL_ALIGN_BOTTOM},
      lh \in {0, 1, 2},
      al \in {"left", "center", "right", "justify"},
      w \in {0, 20} }
  \cup
  { FlowingTextSchema(h, VERTICAL_ALIGN_TOP, 2, al, 20, fn, bg) :
      h \in {0, 5, 260}, al \in {"left", "justify"},
      fn \in {"fontA", "fontB", "missing"}, bg \in {"", "#eeeeee"} }

TextArgs(schemas, values) ==
  { [kind |-> "flowingText", value |-> v, schema |-> s, pageHeight |-> ph] :
      v \in values, s \in schemas, ph \in PageHeights }

SubSchema(name, type) == [name |-> name, type |-> type, position |-> [x |-> 1, y |-> 1]]

\* a field group is the list of its [key, value] entries (Object.entries)
FieldGroup(key, value) == << <<"key", key>>, <<"value", value>> >>

CardSchemaOf(width, height, effectiveHeight, xGutter, yGutter, fields, schemas) ==
  [ position |-> [x |-> 10, y |-> 10], width |-> width, height |-> height,
    effectiveWidth |-> 100, effectiveHeight |-> effectiveHeight,
    xGutter |-> xGutter, yGutter |-> yGutter,
    schemas |-> schemas, fields |-> fields ]

\* the types a sub-schema can have: the six of the switch, a barcode, and a
\* type no plugin renders
SubSchemaTypes ==
  {"text", "image", "svg", "line", "rect", "ellipse", "qrcode", "unknown"}

\* cards narrower and wider than the effective area (100 x 50 or 100 x 90 mm),
\* with and without gutters, for 0..MaxFields field groups
CardSchemas ==
  { CardSchemaOf(w, h, eh, xg, yg, [i \in 1..n |-> FieldGroup("name", "x")],
                 << SubSchema("key", t), SubSchema("value", "text") >>) :
      w \in {40, 60, 120}, h \in {40, 100}, eh \in {50, 90},
      xg \in {0, 5}, yg \in {0, 5}, n \in 0..MaxFields, t \in SubSchemaTypes }

CardArgs ==
  { [kind |-> "card", value |-> v, schema |-> s, pageHeight |-> ph] :
      v \in {<<>>, <<"v">>}, s \in CardSchemas, ph \in PageHeights }

QRCodeSchema == [type |-> "node-qrCode", backgroundColor |-> "#ffffff", barColor |-> "#000000"]

QrArgs ==
  { [kind |-> "qrCode", value |-> v, schema |-> QRCodeSchema, pageHeight |-> ph] :
      v \in {<<>>, <<"v">>, <<"w">>}, ph \in PageHeights }

\* the small inputs of the concurrent specification
SmallArgs ==
  TextArgs({ FlowingTextSchema(5, VERTICAL_ALIGN_TOP, 2, "left", 20, "", "") },
           { <<>>, << <<"a", "b">>, <<"a", "b", NL>> >> })
  \cup { a \in CardArgs : /\ a.schema.width = 40 /\ a.schema.height = 40
                          /\ a.schema.effectiveHeight = 90
                          /\ a.schema.xGutter = 5 /\ a.schema.yGutter = 5
                          /\ Len(a.schema.fields) = 2
                          /\ a.schema.schemas[1].type = "svg" }
  \cup { a \in QrArgs : a.value # <<"w">> }

\* the inputs of the layout specification: one call, every layout input
LayoutArgs ==
  TextArgs(LayoutSchemas, {<<>>} \cup LineLists) \cup CardArgs \cup QrArgs

InitWith(n, args) ==
  /\ arg \in [1..n -> args]
  /\ pc = [c \in 1..n |-> "start"]
  /\ cache = << >>
  /\ docPages = << <<>> >>
  /\ local = [c \in 1..n |-> << >>]
  /\ out = [c \in 1..n |-> << >>]
  /\ stats = [c \in 1..n |-> NoStats]
  /\ embedded = 0

\* several render calls into one document, sharing _cache
Init == \E n \in 1..NumCalls : InitWith(n, SmallArgs)

\* one render call, over every layout input
InitLayout == InitWith(1, LayoutArgs)

Next ==
  \/ \E c \in Calls : pdfRender(c)
  \/ \E c \in Calls : embedAndGetFontObj(c)
  \/ \E c \in Calls : layout(c)
  \/ \E c \in Calls : qrPdfRender(c)
  \/ \E c \in Calls : qrEmbedPng(c)
  \/ \E c \in Calls : cardPdf(c)
  \/ \E c \in Calls : cardField(c)

Spec == Init /\ [][Next]_vars

SpecLayout == InitLayout /\ [][Next]_vars

\* ------------------------------------------------- reading a finished call
\* a flowing-text call with a value that ran to its end
TextDone(c) ==
  arg[c].kind = "flowingText" /\ arg[c].value # <<>> /\ pc[c] = "done"

\* the page indices of linesSplittedPages that hold lines
PageIndices(c) == DOMAIN out[c].linesSplittedPages

\* the entries of linesSplittedPages, page after page
EntriesOf(c) ==
  LET acc == out[c].linesSplittedPages
      order == SortedSeq(DOMAIN acc)
  IN Flatten([k \in 1..Len(order) |-> acc[order[k]]])

\* the bottom bound of page p in mm
BottomBoundMm(c, p) ==
  IF p = 0 THEN arg[c].schema.position.y + arg[c].schema.height
  ELSE pageHeightMm - bottomMarginMm

\* a line without its break characters
StripBreaks(line) == SelectSeq(line, LAMBDA ch : ch # NL)

\* the line is the terminal line of the text: the last one, or one that ends
\* in an explicit break
Terminal(c, d) ==
  \/ d.index = Len(arg[c].value) - 1
  \/ LastChar(arg[c].value[d.index + 1]) = NL

\* C1: the pages pdfRender produces have contiguous indices starting at 0, page 0
\* holds the first line, and the line indices are strictly increasing over the
\* concatenation of the pages' lines.
C1_PaginationMonotonic ==
  \A c \in Calls : TextDone(c) =>
    LET es == EntriesOf(c)
    IN /\ PageIndices(c) = 0..(Cardinality(PageIndices(c)) - 1)
       /\ 0 \in PageIndices(c)
       /\ out[c].linesSplittedPages[0][1].index = 0
       /\ \A i \in 1..(Len(es) - 1) : es[i].index < es[i + 1].index

\* C2: the fonts of a document are embedded, and its cache entry written, at most
\* once, however the render calls for that document interleave.
C2_SingleFlight == embedded <= 1

\* C3: every line is drawn strictly above the bottom bound of the page it is on
\* (position.y + height on page 0, 297 - 20 mm on a continuation page).
C3_AboveBottomBound ==
  \A c \in Calls : TextDone(c) =>
    \A k \in 1..Len(out[c].draws) :
      LET d == out[c].draws[k]
      IN d.y > arg[c].pageHeight - mm2pt(BottomBoundMm(c, d.page))

\* C4: a line whose candidate baseline is at or beyond the bottom bound opens
\* exactly the next page and is its first line, drawn at
\* pageHeight - mm2pt(20) - yOffset; the lines that follow on that page were
\* tested against the continuation bounds and are drawn at the y they were
\* tested at, lineHeight * fontSize further down a row.
C4_ContinuationPlacement ==
  \A c \in Calls : TextDone(c) =>
    LET acc == out[c].linesSplittedPages
        es == EntriesOf(c)
        ds == out[c].draws
        top == arg[c].pageHeight - mm2pt(topMarginMm) - out[c].yOffset
        step == rowYOffsetOf(arg[c].schema.lineHeight, arg[c].schema.fontSize, 1)
        pageOf(i) == ds[i].page
    IN /\ Len(ds) = Len(es)
       /\ \A i \in 1..Len(es) :
            /\ ds[i].index = es[i].index
            /\ pageOf(i) = (IF i = 1 THEN 0 ELSE pageOf(i - 1))
                             + (IF es[i].opened THEN 1 ELSE 0)
            /\ pageOf(i) + 1 <= Len(docPages)
            /\ es[i].opened =>
                 /\ ds[i].row = 0
                 /\ acc[pageOf(i)][1] = es[i]
                 /\ ds[i].y = top
                 /\ es[i].yTest <= arg[c].pageHeight
                      - mm2pt(BottomBoundMm(c, pageOf(i) - 1))
            /\ ~es[i].opened =>
                 /\ ds[i].y = es[i].yTest
                 /\ es[i].yTest > arg[c].pageHeight - mm2pt(BottomBoundMm(c, pageOf(i)))
                 /\ pageOf(i) >= 1 => ds[i].y = top - step * ds[i].row

\* C4 witness: a line overflowed page 0, opened page 1 and is followed by
\* another line on page 1.
C4_Witness ==
  \E c \in Calls :
    /\ TextDone(c)
    /\ PageIndices(c) = {0, 1}
    /\ Len(out[c].linesSplittedPages[1]) >= 2
    /\ arg[c].schema.lineHeight > 0

\* C5: with alignment justify the terminal line of the text (the last line, or a
\* line ending in an explicit break) keeps the base character spacing.
C5_TerminalNotStretched ==
  \A c \in Calls : (TextDone(c) /\ arg[c].schema.alignment = "justify") =>
    \A k \in 1..Len(out[c].draws) :
      LET d == out[c].draws[k]
      IN Terminal(c, d) =>
           /\ d.spacing[2] # 0
           /\ d.spacing[1] = arg[c].schema.characterSpacing * d.spacing[2]

\* C6: a justified line that is not terminal has the spacing
\* characterSpacing + (boxWidth - measuredWidth) / (graphemeCount - 1), and the
\* base spacing when it has at most one grapheme.
C6_JustifySpacing ==
  \A c \in Calls : (TextDone(c) /\ arg[c].schema.alignment = "justify") =>
    \A k \in 1..Len(out[c].draws) :
      LET d == out[c].draws[k]
          cs == arg[c].schema.characterSpacing
          n == Len(d.text)
          gap == mm2pt(arg[c].schema.width)
                   - widthOfTextAtSize(d.text, arg[c].schema.fontSize, cs)
      IN ~Terminal(c, d) =>
           /\ d.spacing[2] # 0
           /\ IF n <= 1
                THEN d.spacing[1] = cs * d.spacing[2]
                ELSE d.spacing[1] * (n - 1) = (cs * (n - 1) + gap) * d.spacing[2]

\* C7: a box of non-positive width or height is laid out on page 0 alone; no
\* continuation page is opened.
C7_DegenerateBoxSinglePage ==
  \A c \in Calls :
    (TextDone(c) /\ (arg[c].schema.width <= 0 \/ arg[c].schema.height <= 0)) =>
      /\ PageIndices(c) = {0}
      /\ stats[c].added = 0

\* C8: when the schema's font name is not in the font set (unset or unknown) the
\* text is drawn with the designated fallback font, and the call does not fail.
C8_FallbackFontUsed ==
  \A c \in Calls :
    (/\ arg[c].kind = "flowingText" /\ arg[c].value # <<>>
     /\ pc[c] \in {"done", "threw"}
     /\ arg[c].schema.fontName \notin DOMAIN Font) =>
      /\ pc[c] = "done"
      /\ \A k \in 1..Len(out[c].draws) :
           /\ out[c].draws[k].font # undefined
           /\ out[c].draws[k].font.name = getFallbackFontName(Font)

\* C9: the texts drawn, page after page and line after line, are the lines of
\* the Line Breaker without their breaks, each line once and in order.
C9_CharacterPreservation ==
  \A c \in Calls : TextDone(c) =>
    LET ds == out[c].draws
        lines == arg[c].value
    IN /\ Len(ds) = Len(lines)
       /\ \A k \in 1..Len(ds) :
            /\ ds[k].index = k - 1
            /\ ds[k].text = StripBreaks(lines[k])
       /\ \A k \in 1..(Len(ds) - 1) :
            \/ ds[k].page < ds[k + 1].page
            \/ ds[k].page = ds[k + 1].page /\ ds[k].row + 1 = ds[k + 1].row
       /\ Len(SelectSeq(Flatten(docPages),
                         LAMBDA o : o = [op |-> "drawText", by |-> c])) = Len(lines)

\* C9 witness: three or more lines, with and without a break, spread over two
\* pages.
C9_Witness ==
  \E c \in Calls :
    /\ TextDone(c)
    /\ Len(arg[c].value) >= 3
    /\ Cardinality(PageIndices(c)) = 2
    /\ \E k \in 1..Len(arg[c].value) : LastChar(arg[c].value[k]) = NL
    /\ \E k \in 1..Len(arg[c].value) : arg[c].value[k] = <<>>

\* C10: a call with an empty value, of any of the three renderers, ends without
\* adding a page, drawing, or reading or writing the cache, and does not fail.
C10_EmptyValueNoOp ==
  \A c \in Calls : arg[c].value = <<>> =>
    /\ pc[c] \in {"start", "done"}
    /\ stats[c] = NoStats
    /\ out[c] = << >>
    /\ local[c] = << >>
    /\ \A p \in 1..Len(docPages) : \A i \in 1..Len(docPages[p]) : docPages[p][i].by # c

\* C10 witness: an empty-value call has returned while another call of the same
\* document has drawn.
C10_Witness ==
  \E c \in Calls, c2 \in Calls :
    /\ arg[c].value = <<>> /\ pc[c] = "done"
    /\ arg[c2].value # <<>> /\ pc[c2] = "done" /\ stats[c2].ops > 0

\* a card call that has entered its loop
CardRunning(c) == arg[c].kind = "card" /\ pc[c] \in {"cardLoop", "done"} /\ local[c] # << >>

\* the card fits the effective area and the gutters are not negative
CardFits(schema) ==
  /\ schema.width <= schema.effectiveWidth
  /\ schema.height <= schema.effectiveHeight
  /\ schema.xGutter >= 0
  /\ schema.yGutter >= 0

\* C11: when the card fits the effective area and the gutters are >= 0, every
\* card is placed inside the effective area, the cards are placed in field
\* order, the page index starts at 0, never decreases and grows by at most 1 a
\* card, and the page a card is drawn on is a page of the document that holds
\* the card's border.
C11_GridPacking ==
  \A c \in Calls : (CardRunning(c) /\ CardFits(arg[c].schema)) =>
    LET schema == arg[c].schema
        placed == local[c].placed
    IN /\ Len(placed) = local[c].next - 1
       /\ pc[c] = "done" => Len(placed) = Len(schema.fields)
       /\ \A k \in 1..Len(placed) :
            /\ placed[k].field = k
            /\ placed[k].x + schema.width <= schema.effectiveWidth
            /\ placed[k].y + schema.height <= schema.effectiveHeight
            /\ placed[k].pageIndex >= (IF k = 1 THEN 0 ELSE placed[k - 1].pageIndex)
            /\ placed[k].pageIndex <= (IF k = 1 THEN 0 ELSE placed[k - 1].pageIndex) + 1
            /\ placed[k].page \in 1..Len(docPages)
            /\ \E i \in 1..Len(docPages[placed[k].page]) :
                 docPages[placed[k].page][i] = [op |-> "drawRectangle", by |-> c]
       /\ Len(SelectSeq(Flatten(docPages),
                        LAMBDA o : o = [op |-> "drawRectangle", by |-> c])) = Len(placed)

\* C11 witness: a fitting card list that wrapped to a second row position or
\* column and to a second page.
C11_Witness ==
  \E c \in Calls :
    /\ CardRunning(c) /\ CardFits(arg[c].schema) /\ pc[c] = "done"
    /\ \E k \in 1..Len(local[c].placed) : local[c].placed[k].x > 0
    /\ \E k \in 1..Len(local[c].placed) : local[c].placed[k].pageIndex = 1
    /\ stats[c].added = 1

\* C12: every entry of a field group whose key names a sub-schema of a rendered
\* type runs exactly one renderer, the one of that type.
C12_OneRendererPerEntry ==
  \A c \in Calls : CardRunning(c) =>
    \A g \in 1..Len(local[c].calls) :
      \A e \in 1..Len(arg[c].schema.fields[g]) :
        LET key == arg[c].schema.fields[g][e][1]
            schemas == arg[c].schema.schemas
            named == { i \in 1..Len(schemas) : schemas[i].name = key }
            ran == SelectSeq(local[c].calls[g], LAMBDA r : r.key = key)
        IN \A i \in named :
             schemas[i].type \in (SubSchemaTypes \ {"unknown"}) =>
               /\ Len(ran) = 1
               /\ ran[1].renderer = schemas[i].type

====
